---- MODULE Spec2Model ----
(***************************************************************************)
(* RigelEngine game logic: the damage infliction system                    *)
(* (src/src/game_logic/damage_infliction_system.cpp) and the game world    *)
(* orchestrator (src/src/game_logic/game_world.cpp).                       *)
(*                                                                         *)
(* SpecDamage is the damage infliction system over a small entity set,     *)
(* Spec is the game world's frame loop with its event handlers.            *)
(***************************************************************************)
EXTENDS Integers, Sequences, FiniteSets, TLC

(***************************************************************************)
(* Bounds of the damage model.  Entity slots are enumerated in ascending   *)
(* id order, as the entity store does; odd slots hold inflictors           *)
(* (projectiles), even slots hold shootable targets.                       *)
(***************************************************************************)
NumEntities == 4

EntityIds == 1..NumEntities
InflictorIds == {e \in EntityIds : e % 2 = 1}
TargetIds == {e \in EntityIds : e % 2 = 0}

\* Tile columns entities can stand on, and the values Init draws
\* DamageInflicting::mAmount and Shootable::mHealth from.
Positions == {0, 1, 2}
Amounts == {1, 2}
Healths == {1, 2}

VARIABLES
  es,             \* damage system: the entity manager's entities, by id
  mScore,         \* damage system: mpPlayerModel->mScore
  dPc,            \* damage system: position inside update()
  dCursor,        \* damage system: next entity id the running each<> visits
  dStart,         \* damage system: the entities as they were when update() was entered
  dSounds,        \* damage system: playSound calls of the running update()
  dDestroyCalls,  \* damage system: number of destroy() calls made on each entity
  gw,             \* game world: the GameWorld object and what it owns or points to
  pc,             \* game world: position in the frame loop
  history         \* game world: what it was constructed from, the last checkpoint
                  \* event, and the sound and message calls made so far

dvars == <<es, mScore, dPc, dCursor, dStart, dSounds, dDestroyCalls>>
wvars == <<gw, pc, history>>
vars == <<es, mScore, dPc, dCursor, dStart, dSounds, dDestroyCalls,
          gw, pc, history>>

(***************************************************************************)
(* Geometry.  A rectangle is a top-left corner and a size; an entity's     *)
(* bounding box is given relative to its world position, whose y is the    *)
(* bottom row of the box.                                                  *)
(***************************************************************************)
Rect(x, y, w, h) == [x |-> x, y |-> y, w |-> w, h |-> h]

left(r) == r.x
right(r) == r.x + (r.w - 1)
top(r) == r.y
bottom(r) == r.y + (r.h - 1)

intersects(a, b) ==
  /\ left(a) <= right(b)
  /\ right(a) >= left(b)
  /\ top(a) <= bottom(b)
  /\ bottom(a) >= top(b)

toWorldSpace(bbox, pos) ==
  Rect(bbox.x + pos.x, bbox.y + (pos.y - (bbox.h - 1)), bbox.w, bbox.h)

Vector(x, y) == [x |-> x, y |-> y]

\* Score a target gives: distinct per slot, so that the credited target shows.
GivenScoreOf(e) == 100 * e

NoBox == Rect(0, 0, 0, 0)

\* The slot of a destroyed (or never created) entity: no components.
DeadEntity ==
  [alive |-> FALSE, comps |-> {}, pos |-> Vector(0, 0), box |-> NoBox,
   amount |-> 0, health |-> 0, givenScore |-> 0]

\* A projectile: one tile wide.
Inflictor(x, amount) ==
  [alive |-> TRUE,
   comps |-> {"DamageInflicting", "WorldPosition", "BoundingBox"},
   pos |-> Vector(x, 0), box |-> Rect(0, 0, 1, 1),
   amount |-> amount, health |-> 0, givenScore |-> 0]

\* A shootable: two tiles wide.
Target(x, health, score) ==
  [alive |-> TRUE,
   comps |-> {"Shootable", "WorldPosition", "BoundingBox"},
   pos |-> Vector(x, 0), box |-> Rect(0, 0, 2, 1),
   amount |-> 0, health |-> health, givenScore |-> score]

HasComponents(ent, wanted) == ent.alive /\ wanted \subseteq ent.comps

InflictorSignature == {"DamageInflicting", "WorldPosition", "BoundingBox"}
ShootableSignature == {"Shootable", "WorldPosition", "BoundingBox"}
WorldCollisionSignature == {"DamageInflicting", "CollidedWithWorld"}

WorldBox(ent) == toWorldSpace(ent.box, ent.pos)

\* Smallest id >= from whose entity carries the wanted components, 0 if none.
NextWith(ents, wanted, from) ==
  LET S == {e \in EntityIds : e >= from /\ HasComponents(ents[e], wanted)}
  IN IF S = {} THEN 0 ELSE CHOOSE e \in S : \A o \in S : e <= o

\* Entity::destroy
DestroyEntity(w, e) ==
  [w EXCEPT !.ents[e] = DeadEntity,
            !.destroyCalls[e] = w.destroyCalls[e] + 1]

(***************************************************************************)
(* DamageInflictionSystem::update.  The working state w of an update is    *)
(* [ents, score, sounds, destroyCalls].                                    *)
(***************************************************************************)

\* Lines 70-83 with the target killed only when its health falls below zero.
HitTarget_KillBelowZero(w, i, amount, t) ==
  LET w1 == DestroyEntity(w, i)
      health == w1.ents[t].health - amount
  IN IF health < 0
       THEN DestroyEntity(
              [w1 EXCEPT !.score = @ + w1.ents[t].givenScore,
                         !.sounds = Append(@, "AlternateExplosion")], t)
       ELSE [w1 EXCEPT !.ents[t].health = health,
                       !.sounds = Append(@, "EnemyHit")]

\* Lines 70-83 without shootableEntity.destroy().
HitTarget_TargetKept(w, i, amount, t) ==
  LET w1 == DestroyEntity(w, i)
      health == w1.ents[t].health - amount
  IN IF health <= 0
       THEN [w1 EXCEPT !.ents[t].health = health,
                       !.score = @ + w1.ents[t].givenScore,
                       !.sounds = Append(@, "AlternateExplosion")]
       ELSE [w1 EXCEPT !.ents[t].health = health,
                       !.sounds = Append(@, "EnemyHit")]

\* The body of `if (shootableBbox.intersects(inflictorBbox))`: the inflictor is
\* destroyed, then the target is damaged.  amount is damage.mAmount, read
\* through the callback's reference after the inflictor's destroy(): the
\* component pool keeps the slot's bytes, so the read yields the stored amount.
HitTarget(w, i, amount, t) ==
  LET w1 == DestroyEntity(w, i)
      health == w1.ents[t].health - amount
  IN IF health <= 0
       THEN DestroyEntity(
              [w1 EXCEPT !.score = @ + w1.ents[t].givenScore,
                         !.sounds = Append(@, "AlternateExplosion")], t)
       ELSE [w1 EXCEPT !.ents[t].health = health,
                       !.sounds = Append(@, "EnemyHit")]

\* The target loop without its `break`: every intersecting target is hit.
RECURSIVE ScanShootables_NoBreak(_, _, _, _, _)
ScanShootables_NoBreak(w, i, amount, inflictorBbox, from) ==
  LET t == NextWith(w.ents, ShootableSignature, from)
  IN IF t = 0 THEN w
     ELSE IF intersects(WorldBox(w.ents[t]), inflictorBbox)
       THEN ScanShootables_NoBreak(HitTarget(w, i, amount, t), i, amount,
                                   inflictorBbox, t + 1)
       ELSE ScanShootables_NoBreak(w, i, amount, inflictorBbox, t + 1)

\* for (auto shootableEntity : es.entities_with_components(...)), from id
\* `from` on: the first intersecting target is hit and the loop ends.
RECURSIVE ScanShootables(_, _, _, _, _)
ScanShootables(w, i, amount, inflictorBbox, from) ==
  LET t == NextWith(w.ents, ShootableSignature, from)
  IN IF t = 0 THEN w
     ELSE IF intersects(WorldBox(w.ents[t]), inflictorBbox)
       THEN HitTarget(w, i, amount, t)
       ELSE ScanShootables(w, i, amount, inflictorBbox, t + 1)

\* The callback of es.each<DamageInflicting, WorldPosition, BoundingBox> for
\* inflictor i.
InflictorCallback(w, i) ==
  LET inflictorBbox == toWorldSpace(w.ents[i].box, w.ents[i].pos)
  IN ScanShootables(w, i, w.ents[i].amount, inflictorBbox, 1)

\* The second pass stopping after the first entity it destroys.
WorldCollisionEach_FirstOnly(w, from) ==
  LET e == NextWith(w.ents, WorldCollisionSignature, from)
  IN IF e = 0 THEN w ELSE DestroyEntity(w, e)

\* es.each<DamageInflicting, CollidedWithWorld>: every entity carrying both is
\* destroyed.
RECURSIVE WorldCollisionEach(_, _)
WorldCollisionEach(w, from) ==
  LET e == NextWith(w.ents, WorldCollisionSignature, from)
  IN IF e = 0 THEN w ELSE WorldCollisionEach(DestroyEntity(w, e), e + 1)

DWorking ==
  [ents |-> es, score |-> mScore, sounds |-> dSounds,
   destroyCalls |-> dDestroyCalls]

DStore(w) ==
  /\ es' = w.ents
  /\ mScore' = w.score
  /\ dSounds' = w.sounds
  /\ dDestroyCalls' = w.destroyCalls

InUpdate == dPc = "pass1"

NoSnapshot == [e \in EntityIds |-> DeadEntity]

\* update() is entered.
DBeginUpdate ==
  /\ ~InUpdate
  /\ dPc' = "pass1"
  /\ dCursor' = 1
  /\ dStart' = es
  /\ dSounds' = <<>>
  /\ UNCHANGED <<es, mScore, dDestroyCalls>>
  /\ UNCHANGED wvars

\* The first each<> visits its next inflictor.
DInflictorCallback ==
  /\ InUpdate
  /\ LET i == NextWith(es, InflictorSignature, dCursor)
     IN /\ i # 0
        /\ DStore(InflictorCallback(DWorking, i))
        /\ dCursor' = i + 1
  /\ UNCHANGED <<dPc, dStart>>
  /\ UNCHANGED wvars

\* The first each<> has visited every inflictor: the second each<> runs and
\* update() returns.
DWorldCollisionPass ==
  /\ InUpdate
  /\ NextWith(es, InflictorSignature, dCursor) = 0
  /\ DStore(WorldCollisionEach(DWorking, 1))
  /\ dPc' = "done"
  /\ dCursor' = 1
  /\ UNCHANGED dStart
  /\ UNCHANGED wvars

\* Between two updates the other systems move entities ...
DMove(e, x) ==
  /\ ~InUpdate
  /\ HasComponents(es[e], {"WorldPosition"})
  /\ es[e].pos.x # x
  /\ es' = [es EXCEPT ![e].pos = Vector(x, 0)]
  /\ dPc' = "idle"
  /\ dStart' = NoSnapshot
  /\ dSounds' = <<>>
  /\ UNCHANGED <<mScore, dCursor, dDestroyCalls>>
  /\ UNCHANGED wvars

\* ... and the physics system tags projectiles that ran into the map.
DCollide(e) ==
  /\ ~InUpdate
  /\ HasComponents(es[e], {"DamageInflicting"})
  /\ "CollidedWithWorld" \notin es[e].comps
  /\ es' = [es EXCEPT ![e].comps = @ \cup {"CollidedWithWorld"}]
  /\ dPc' = "idle"
  /\ dStart' = NoSnapshot
  /\ dSounds' = <<>>
  /\ UNCHANGED <<mScore, dCursor, dDestroyCalls>>
  /\ UNCHANGED wvars

(***************************************************************************)
(* The game world (game_world.cpp).  gw is the GameWorld object together   *)
(* with the objects it owns or points to: the player model, the entity     *)
(* manager, the in-game systems (player position, backdrop in use).        *)
(* gw.calls lists the calls the running handler has made to the message    *)
(* display, the service provider and the systems.                          *)
(***************************************************************************)

\* std::optional: no value, or one value.
nullopt == {}
Some(v) == {v}
ValueOf(o) == CHOOSE v \in o : TRUE

Call(g, name, arg) ==
  [g EXCEPT !.calls = Append(@, [call |-> name, arg |-> arg])]

CallsOf(g, name) == {k \in 1..Len(g.calls) : g.calls[k].call = name}

HasCall(g, name, arg) ==
  \E k \in 1..Len(g.calls) : g.calls[k] = [call |-> name, arg |-> arg]

\* data::PlayerModel: the score and the tutorial messages shown so far.
PlayerModel(score, shown) == [mScore |-> score, mTutorialMessages |-> shown]

makeCheckpoint(pm) == pm

restoreFromCheckpoint(pm, state) == state

hasBeenShown(pm, id) == id \in pm.mTutorialMessages

markAsShown(pm, id) == [pm EXCEPT !.mTutorialMessages = @ \cup {id}]

\* Actor types that carry an ActorTag; the others (player, triggers, radar
\* dishes, plain enemies, projectiles) carry none.
ActorTagTypes ==
  {"ShootableCamera", "FireBomb", "CollectableWeapon", "Merchandise",
   "ShootableBonusGlobe", "MountedLaserTurret", "Reactor", "Door"}

Actor(type, pos) == [type |-> type, pos |-> pos]

\* An entity: its id, what it was created as, its WorldPosition, and whether it
\* carries the Active component (the systems add it while it is on screen).
Entity(id, type, pos) ==
  [id |-> id, type |-> type, pos |-> pos, active |-> FALSE]

HasActorTag(e) == e.type \in ActorTagTypes

\* EntityFactory::createEntitiesForLevel: one entity per actor of the level.
createEntitiesForLevel(actors) ==
  {Entity(k, actors[k].type, actors[k].pos) : k \in 1..Len(actors)}

\* Where the level's player actor stands.
PlayerStart(actors) ==
  LET k == CHOOSE i \in 1..Len(actors) : actors[i].type = "Player"
  IN actors[k].pos

\* The id a newly created entity gets.
NewId(ents) ==
  CHOOSE k \in 1..(Cardinality(ents) + 1) :
    /\ \A e \in ents : e.id # k
    /\ \A j \in 1..(k - 1) : \E e \in ents : e.id = j

\* EntityFactory::createProjectile
createProjectile(g, type, pos, direction) ==
  Call([g EXCEPT !.mEntities = @ \cup {Entity(NewId(@), type, pos)}],
       "createProjectile", direction)

CountTag(ents, type) ==
  Cardinality({e \in ents : HasActorTag(e) /\ e.type = type})

countBonusRelatedItems(ents) ==
  [mCameraCount |-> CountTag(ents, "ShootableCamera"),
   mFireBombCount |-> CountTag(ents, "FireBomb"),
   mWeaponCount |-> CountTag(ents, "CollectableWeapon"),
   mMerchandiseCount |-> CountTag(ents, "Merchandise"),
   mBonusGlobeCount |-> CountTag(ents, "ShootableBonusGlobe"),
   mLaserTurretCount |-> CountTag(ents, "MountedLaserTurret")]

\* RadarDishCounter::radarDishesPresent
radarDishesPresent(g) == \E e \in g.mEntities : e.type = "RadarDish"

\* achievedBonuses with the fire bomb bonus granted like the other bonuses,
\* only when the level had fire bombs.
achievedBonuses_FireBombsLikeOthers(g) ==
  LET counts == countBonusRelatedItems(g.mEntities)
      initial ==
        countBonusRelatedItems(
          createEntitiesForLevel(g.mLevelData.mInitialActors))
      b == g.mBonusInfo
  IN {x \in {"NoDamageTaken"} : ~b.mPlayerTookDamage}
     \cup {x \in {"DestroyedAllCameras"} :
             b.mInitialCameraCount > 0 /\ counts.mCameraCount = 0}
     \cup {x \in {"DestroyedAllFireBombs"} :
             initial.mFireBombCount > 0 /\ counts.mFireBombCount = 0}
     \cup {x \in {"CollectedAllMerchandise"} :
             b.mInitialMerchandiseCount > 0 /\ counts.mMerchandiseCount = 0}
     \cup {x \in {"CollectedEveryWeapon"} :
             b.mInitialWeaponCount > 0 /\ counts.mWeaponCount = 0}
     \cup {x \in {"DestroyedAllSpinningLaserTurrets"} :
             b.mInitialLaserTurretCount > 0 /\ counts.mLaserTurretCount = 0}
     \cup {x \in {"ShotAllBonusGlobes"} :
             b.mInitialBonusGlobeCount = b.mNumShotBonusGlobes}

\* achievedBonuses granting the camera bonus whenever no camera is left.
achievedBonuses_CamerasLikeFireBombs(g) ==
  LET counts == countBonusRelatedItems(g.mEntities)
      b == g.mBonusInfo
  IN {x \in {"NoDamageTaken"} : ~b.mPlayerTookDamage}
     \cup {x \in {"DestroyedAllCameras"} : counts.mCameraCount = 0}
     \cup {x \in {"DestroyedAllFireBombs"} : counts.mFireBombCount = 0}
     \cup {x \in {"CollectedAllMerchandise"} :
             b.mInitialMerchandiseCount > 0 /\ counts.mMerchandiseCount = 0}
     \cup {x \in {"CollectedEveryWeapon"} :
             b.mInitialWeaponCount > 0 /\ counts.mWeaponCount = 0}
     \cup {x \in {"DestroyedAllSpinningLaserTurrets"} :
             b.mInitialLaserTurretCount > 0 /\ counts.mLaserTurretCount = 0}
     \cup {x \in {"ShotAllBonusGlobes"} :
             b.mInitialBonusGlobeCount = b.mNumShotBonusGlobes}

\* GameWorld::achievedBonuses
achievedBonuses(g) ==
  LET counts == countBonusRelatedItems(g.mEntities)
      b == g.mBonusInfo
  IN {x \in {"NoDamageTaken"} : ~b.mPlayerTookDamage}
     \cup {x \in {"DestroyedAllCameras"} :
             b.mInitialCameraCount > 0 /\ counts.mCameraCount = 0}
     \cup {x \in {"DestroyedAllFireBombs"} : counts.mFireBombCount = 0}
     \cup {x \in {"CollectedAllMerchandise"} :
             b.mInitialMerchandiseCount > 0 /\ counts.mMerchandiseCount = 0}
     \cup {x \in {"CollectedEveryWeapon"} :
             b.mInitialWeaponCount > 0 /\ counts.mWeaponCount = 0}
     \cup {x \in {"DestroyedAllSpinningLaserTurrets"} :
             b.mInitialLaserTurretCount > 0 /\ counts.mLaserTurretCount = 0}
     \cup {x \in {"ShotAllBonusGlobes"} :
             b.mInitialBonusGlobeCount = b.mNumShotBonusGlobes}

\* showTutorialMessage forgetting to mark the message as shown.
showTutorialMessage_NotMarked(g, id) ==
  IF ~hasBeenShown(g.mpPlayerModel, id)
    THEN Call(g, "setMessage", id)
    ELSE g

\* GameWorld::showTutorialMessage
showTutorialMessage(g, id) ==
  IF ~hasBeenShown(g.mpPlayerModel, id)
    THEN [Call(g, "setMessage", id) EXCEPT
            !.mpPlayerModel = markAsShown(@, id)]
    ELSE g

\* IngameSystems::switchBackdrops
switchBackdrops(g) ==
  Call([g EXCEPT !.mpSystems.backdropsSwapped = ~@], "switchBackdrops", "")

\* onReactorDestroyed running the special event on every reactor kill.
onReactorDestroyed_EveryKill(g, position) ==
  LET g1 == [g EXCEPT !.mScreenFlashColor = Some("INGAME_PALETTE[7]")]
      g2 == createProjectile(g1, "ReactorDebris",
                             Vector(position.x - 1, position.y), "Left")
      g3 == createProjectile(g2, "ReactorDebris",
                             Vector(position.x + 3, position.y), "Right")
      shouldDoSpecialEvent ==
        g.mLevelData.mBackdropSwitchCondition = "OnReactorDestruction"
  IN IF shouldDoSpecialEvent
       THEN [switchBackdrops(g3) EXCEPT
               !.mBackdropSwitched = TRUE,
               !.mReactorDestructionFramesElapsed = Some(0)]
       ELSE g3

\* GameWorld::onReactorDestroyed
onReactorDestroyed(g, position) ==
  LET g1 == [g EXCEPT !.mScreenFlashColor = Some("INGAME_PALETTE[7]")]
      g2 == createProjectile(g1, "ReactorDebris",
                             Vector(position.x - 1, position.y), "Left")
      g3 == createProjectile(g2, "ReactorDebris",
                             Vector(position.x + 3, position.y), "Right")
      shouldDoSpecialEvent ==
        g.mLevelData.mBackdropSwitchCondition = "OnReactorDestruction"
  IN IF g.mReactorDestructionFramesElapsed = nullopt /\ shouldDoSpecialEvent
       THEN [switchBackdrops(g3) EXCEPT
               !.mBackdropSwitched = TRUE,
               !.mReactorDestructionFramesElapsed = Some(0)]
       ELSE g3

\* GameWorld::receive(CheckPointActivated)
receiveCheckPointActivated(g, event) ==
  Call([g EXCEPT !.mActivatedCheckpoint =
          Some([mState |-> makeCheckpoint(g.mpPlayerModel),
                mPosition |-> event.mPosition])],
       "setMessage", "FoundRespawnBeacon")

\* receive(ExitReached) finishing the level whatever the radar dishes.
receiveExitReached_IgnoresRadarDishes(g, event) ==
  [g EXCEPT !.mLevelFinished = TRUE]

\* GameWorld::receive(ExitReached)
receiveExitReached(g, event) ==
  IF radarDishesPresent(g) /\ event.mCheckRadarDishes
    THEN showTutorialMessage(g, "RadarsStillFunctional")
    ELSE [g EXCEPT !.mLevelFinished = TRUE]

\* GameWorld::receive(PlayerDied)
receivePlayerDied(g, event) == [g EXCEPT !.mPlayerDied = TRUE]

\* GameWorld::receive(PlayerTookDamage)
receivePlayerTookDamage(g, event) ==
  [g EXCEPT !.mBonusInfo.mPlayerTookDamage = TRUE]

\* GameWorld::receive(PlayerMessage)
receivePlayerMessage(g, event) == Call(g, "setMessage", event.mText)

\* receive(PlayerTeleported) moving the player at once.
receivePlayerTeleported_Immediate(g, event) ==
  [g EXCEPT !.mTeleportTargetPosition = Some(event.mNewPosition),
            !.mpSystems.playerPosition = event.mNewPosition]

\* GameWorld::receive(PlayerTeleported)
receivePlayerTeleported(g, event) ==
  [g EXCEPT !.mTeleportTargetPosition = Some(event.mNewPosition)]

\* GameWorld::receive(ScreenFlash)
receiveScreenFlash(g, event) ==
  [g EXCEPT !.mScreenFlashColor = Some(event.mColor)]

\* receive(ScreenShake) adding to the offset instead of setting it.
receiveScreenShake_Accumulating(g, event) ==
  [g EXCEPT !.mScreenShakeOffsetX = @ + event.mAmount]

\* GameWorld::receive(ScreenShake)
receiveScreenShake(g, event) ==
  [g EXCEPT !.mScreenShakeOffsetX = event.mAmount]

\* GameWorld::receive(TutorialMessage)
receiveTutorialMessage(g, event) == showTutorialMessage(g, event.mId)

\* GameWorld::receive(ShootableKilled); event.mEntity is a live entity.
receiveShootableKilled(g, event) ==
  LET entity == event.mEntity
  IN IF ~HasActorTag(entity) THEN g
     ELSE CASE entity.type = "Reactor" -> onReactorDestroyed(g, entity.pos)
            [] entity.type = "ShootableBonusGlobe" ->
                 [g EXCEPT !.mBonusInfo.mNumShotBonusGlobes = @ + 1]
            [] OTHER -> g

\* GameWorld::receive(BossActivated)
receiveBossActivated(g, event) ==
  Call([g EXCEPT !.mActiveBossEntity = Some(event.mBossEntity)],
       "playMusic", "mLevelMusicFile")

\* GameWorld::updateReactorDestructionEvent
updateReactorDestructionEvent(g) ==
  LET framesElapsed == ValueOf(g.mReactorDestructionFramesElapsed)
  IN IF framesElapsed >= 14 THEN g
     ELSE LET g1 ==
                IF framesElapsed = 13
                  THEN Call(g, "setMessage", "DestroyedEverything")
                ELSE IF framesElapsed % 2 = 1
                  THEN Call([g EXCEPT !.mBackdropFlashColor = Some("White")],
                            "playSound", "BigExplosion")
                ELSE g
          IN [g1 EXCEPT
                !.mReactorDestructionFramesElapsed = Some(framesElapsed + 1)]

\* updateGameLogic running the reactor sequence only for a counter above 0.
updateGameLogic_SkipsFrameZero(g) ==
  LET g1 == [g EXCEPT !.mBackdropFlashColor = nullopt,
                      !.mScreenFlashColor = nullopt]
  IN IF g1.mReactorDestructionFramesElapsed # nullopt
          /\ ValueOf(g1.mReactorDestructionFramesElapsed) # 0
       THEN updateReactorDestructionEvent(g1)
       ELSE g1

\* GameWorld::updateGameLogic up to its call of mpSystems->update.  The levels
\* modelled have no earthquake; the HUD animation and the message display's
\* own update change nothing the game world reads.
updateGameLogic(g) ==
  LET g1 == [g EXCEPT !.mBackdropFlashColor = nullopt,
                      !.mScreenFlashColor = nullopt]
  IN IF g1.mReactorDestructionFramesElapsed # nullopt
       THEN updateReactorDestructionEvent(g1)
       ELSE g1

\* Player::worldSpaceHitBox: the player is two tiles wide and two tiles high.
worldSpaceHitBox(g) == toWorldSpace(Rect(0, 0, 2, 2), g.mpSystems.playerPosition)

IsTrigger(e) == e.type \in {"LevelExitTrigger", "OtherTrigger"}

\* The callback without the extra column right of the player's hit box.
LevelExitCallback_NoRightMargin(g, e) ==
  IF e.type # "LevelExitTrigger" \/ g.mLevelFinished THEN g
  ELSE LET playerBBox == worldSpaceHitBox(g)
           playerAboveOrAtTriggerHeight == bottom(playerBBox) <= e.pos.y
           touchingTriggerOnXAxis ==
             /\ e.pos.x >= left(playerBBox)
             /\ e.pos.x <= right(playerBBox)
           triggerActivated ==
             playerAboveOrAtTriggerHeight /\ touchingTriggerOnXAxis
       IN IF triggerActivated
            THEN receiveExitReached(Call(g, "emit", "ExitReached"),
                                    [mCheckRadarDishes |-> TRUE])
            ELSE g

\* The callback raising the event also in a level that is finished.
LevelExitCallback_NoFinishedGuard(g, e) ==
  IF e.type # "LevelExitTrigger" THEN g
  ELSE LET playerBBox == worldSpaceHitBox(g)
           playerAboveOrAtTriggerHeight == bottom(playerBBox) <= e.pos.y
           touchingTriggerOnXAxis ==
             /\ e.pos.x >= left(playerBBox)
             /\ e.pos.x <= right(playerBBox) + 1
           triggerActivated ==
             playerAboveOrAtTriggerHeight /\ touchingTriggerOnXAxis
       IN IF triggerActivated
            THEN receiveExitReached(Call(g, "emit", "ExitReached"),
                                    [mCheckRadarDishes |-> TRUE])
            ELSE g

\* The callback of mEntities.each<Trigger, WorldPosition, Active> for trigger e.
LevelExitCallback(g, e) ==
  IF e.type # "LevelExitTrigger" \/ g.mLevelFinished THEN g
  ELSE LET playerBBox == worldSpaceHitBox(g)
           playerAboveOrAtTriggerHeight == bottom(playerBBox) <= e.pos.y
           touchingTriggerOnXAxis ==
             /\ e.pos.x >= left(playerBBox)
             /\ e.pos.x <= right(playerBBox) + 1
           triggerActivated ==
             playerAboveOrAtTriggerHeight /\ touchingTriggerOnXAxis
       IN IF triggerActivated
            THEN receiveExitReached(Call(g, "emit", "ExitReached"),
                                    [mCheckRadarDishes |-> TRUE])
            ELSE g

RECURSIVE handleLevelExitFrom(_, _)
handleLevelExitFrom(g, from) ==
  LET S == {e \in g.mEntities : e.id >= from /\ IsTrigger(e) /\ e.active}
  IN IF S = {} THEN g
     ELSE LET e == CHOOSE x \in S : \A o \in S : x.id <= o.id
          IN handleLevelExitFrom(LevelExitCallback(g, e), e.id + 1)

\* GameWorld::handleLevelExit
handleLevelExit(g) == handleLevelExitFrom(g, 1)

\* restartLevel starting the level over as unfinished.
restartLevel_ClearsFinished(g) ==
  LET g1 == Call(g, "fadeOutScreen", "")
      g2 == IF g1.mBackdropSwitched
              THEN [switchBackdrops(g1) EXCEPT !.mBackdropSwitched = FALSE]
              ELSE g1
      g3 == [g2 EXCEPT
               !.mLevelData.mMap = g2.mMapAtLevelStart,
               !.mLevelFinished = FALSE,
               !.mEntities =
                 createEntitiesForLevel(g2.mLevelData.mInitialActors)]
      g4 == Call([g3 EXCEPT !.mpSystems.playerPosition =
                    PlayerStart(g3.mLevelData.mInitialActors)],
                 "restartFromBeginning", "")
      g5 == [g4 EXCEPT !.mpPlayerModel = g4.mPlayerModelAtLevelStart]
  IN Call(Call(g5, "render", ""), "fadeInScreen", "")

\* GameWorld::restartLevel
restartLevel(g) ==
  LET g1 == Call(g, "fadeOutScreen", "")
      g2 == IF g1.mBackdropSwitched
              THEN [switchBackdrops(g1) EXCEPT !.mBackdropSwitched = FALSE]
              ELSE g1
      g3 == [g2 EXCEPT
               !.mLevelData.mMap = g2.mMapAtLevelStart,
               !.mEntities =
                 createEntitiesForLevel(g2.mLevelData.mInitialActors)]
      g4 == Call([g3 EXCEPT !.mpSystems.playerPosition =
                    PlayerStart(g3.mLevelData.mInitialActors)],
                 "restartFromBeginning", "")
      g5 == [g4 EXCEPT !.mpPlayerModel = g4.mPlayerModelAtLevelStart]
  IN Call(Call(g5, "render", ""), "fadeInScreen", "")

\* restartFromCheckpoint restoring the level-start snapshot of the player model.
restartFromCheckpoint_LevelStartModel(g) ==
  LET g1 == Call(g, "fadeOutScreen", "")
      shouldSwitchBackAfterRespawn ==
        g.mLevelData.mBackdropSwitchCondition = "OnTeleportation"
      g2 == IF g1.mBackdropSwitched /\ shouldSwitchBackAfterRespawn
              THEN [switchBackdrops(g1) EXCEPT !.mBackdropSwitched = FALSE]
              ELSE g1
      checkpoint == ValueOf(g.mActivatedCheckpoint)
      g3 == [g2 EXCEPT !.mpPlayerModel = g2.mPlayerModelAtLevelStart]
      g4 == Call([g3 EXCEPT !.mpSystems.playerPosition = checkpoint.mPosition],
                 "restartFromCheckpoint", "")
  IN Call(Call(g4, "render", ""), "fadeInScreen", "")

\* restartFromCheckpoint consuming the checkpoint it restores.
restartFromCheckpoint_CheckpointConsumed(g) ==
  LET g1 == Call(g, "fadeOutScreen", "")
      shouldSwitchBackAfterRespawn ==
        g.mLevelData.mBackdropSwitchCondition = "OnTeleportation"
      g2 == IF g1.mBackdropSwitched /\ shouldSwitchBackAfterRespawn
              THEN [switchBackdrops(g1) EXCEPT !.mBackdropSwitched = FALSE]
              ELSE g1
      checkpoint == ValueOf(g.mActivatedCheckpoint)
      g3 == [g2 EXCEPT
               !.mpPlayerModel =
                 restoreFromCheckpoint(@, checkpoint.mState),
               !.mActivatedCheckpoint = nullopt]
      g4 == Call([g3 EXCEPT !.mpSystems.playerPosition = checkpoint.mPosition],
                 "restartFromCheckpoint", "")
  IN Call(Call(g4, "render", ""), "fadeInScreen", "")

\* GameWorld::restartFromCheckpoint
restartFromCheckpoint(g) ==
  LET g1 == Call(g, "fadeOutScreen", "")
      shouldSwitchBackAfterRespawn ==
        g.mLevelData.mBackdropSwitchCondition = "OnTeleportation"
      g2 == IF g1.mBackdropSwitched /\ shouldSwitchBackAfterRespawn
              THEN [switchBackdrops(g1) EXCEPT !.mBackdropSwitched = FALSE]
              ELSE g1
      checkpoint == ValueOf(g.mActivatedCheckpoint)
      g3 == [g2 EXCEPT
               !.mpPlayerModel = restoreFromCheckpoint(@, checkpoint.mState)]
      g4 == Call([g3 EXCEPT !.mpSystems.playerPosition = checkpoint.mPosition],
                 "restartFromCheckpoint", "")
  IN Call(Call(g4, "render", ""), "fadeInScreen", "")

\* handlePlayerDeath leaving the death flag set.
handlePlayerDeath_FlagKept(g) ==
  IF g.mPlayerDied
    THEN IF g.mActivatedCheckpoint # nullopt
           THEN restartFromCheckpoint(g)
           ELSE restartLevel(g)
    ELSE g

\* GameWorld::handlePlayerDeath
handlePlayerDeath(g) ==
  IF g.mPlayerDied
    THEN LET g1 == [g EXCEPT !.mPlayerDied = FALSE]
         IN IF g1.mActivatedCheckpoint # nullopt
              THEN restartFromCheckpoint(g1)
              ELSE restartLevel(g1)
    ELSE g

\* handleTeleporter setting the flag instead of toggling it.
handleTeleporter_FlagSet(g) ==
  IF g.mTeleportTargetPosition = nullopt THEN g
  ELSE LET g1 == Call(g, "fadeOutScreen", "")
           g2 == [g1 EXCEPT
                    !.mpSystems.playerPosition =
                      ValueOf(g1.mTeleportTargetPosition),
                    !.mTeleportTargetPosition = nullopt]
           switchBackdrop ==
             g.mLevelData.mBackdropSwitchCondition = "OnTeleportation"
           g3 == IF switchBackdrop
                   THEN [switchBackdrops(g2) EXCEPT !.mBackdropSwitched = TRUE]
                   ELSE g2
       IN Call(Call(g3, "render", ""), "fadeInScreen", "")

\* GameWorld::handleTeleporter
handleTeleporter(g) ==
  IF g.mTeleportTargetPosition = nullopt THEN g
  ELSE LET g1 == Call(g, "fadeOutScreen", "")
           g2 == [g1 EXCEPT
                    !.mpSystems.playerPosition =
                      ValueOf(g1.mTeleportTargetPosition),
                    !.mTeleportTargetPosition = nullopt]
           switchBackdrop ==
             g.mLevelData.mBackdropSwitchCondition = "OnTeleportation"
           g3 == IF switchBackdrop
                   THEN [switchBackdrops(g2) EXCEPT !.mBackdropSwitched = ~@]
                   ELSE g2
       IN Call(Call(g3, "render", ""), "fadeInScreen", "")

\* A level as the loader delivers it.
Level(map, actors, condition) ==
  [mMap |-> map, mActors |-> actors, mBackdropSwitchCondition |-> condition]

\* GameWorld::loadLevel, on the members the constructor has initialised.
loadLevel(g, loadedLevel) ==
  LET entities == createEntitiesForLevel(loadedLevel.mActors)
      counts == countBonusRelatedItems(entities)
  IN Call(
       [g EXCEPT
          !.mEntities = entities,
          !.mBonusInfo.mInitialCameraCount = counts.mCameraCount,
          !.mBonusInfo.mInitialMerchandiseCount = counts.mMerchandiseCount,
          !.mBonusInfo.mInitialWeaponCount = counts.mWeaponCount,
          !.mBonusInfo.mInitialLaserTurretCount = counts.mLaserTurretCount,
          !.mBonusInfo.mInitialBonusGlobeCount = counts.mBonusGlobeCount,
          !.mLevelData = [mMap |-> loadedLevel.mMap,
                          mInitialActors |-> loadedLevel.mActors,
                          mBackdropSwitchCondition |->
                            loadedLevel.mBackdropSwitchCondition],
          !.mMapAtLevelStart = loadedLevel.mMap,
          !.mpSystems = [playerPosition |-> PlayerStart(loadedLevel.mActors),
                         backdropsSwapped |-> FALSE]],
       "playMusic", "mMusicFile")

\* The members as their initialisers leave them (game_world.hpp defaults).
NewGameWorld(pPlayerModel) ==
  [mpPlayerModel |-> pPlayerModel,
   mPlayerModelAtLevelStart |-> pPlayerModel,
   mEntities |-> {},
   mBonusInfo |-> [mInitialCameraCount |-> 0,
                   mInitialMerchandiseCount |-> 0,
                   mInitialWeaponCount |-> 0,
                   mInitialLaserTurretCount |-> 0,
                   mInitialBonusGlobeCount |-> 0,
                   mNumShotBonusGlobes |-> 0,
                   mPlayerTookDamage |-> FALSE],
   mLevelData |-> [mMap |-> {}, mInitialActors |-> <<>>,
                   mBackdropSwitchCondition |-> "None"],
   mMapAtLevelStart |-> {},
   mpSystems |-> [playerPosition |-> Vector(0, 0),
                  backdropsSwapped |-> FALSE],
   mActivatedCheckpoint |-> nullopt,
   mPlayerDied |-> FALSE,
   mTeleportTargetPosition |-> nullopt,
   mLevelFinished |-> FALSE,
   mBackdropSwitched |-> FALSE,
   mReactorDestructionFramesElapsed |-> nullopt,
   mBackdropFlashColor |-> nullopt,
   mScreenFlashColor |-> nullopt,
   mScreenShakeOffsetX |-> 0,
   mActiveBossEntity |-> nullopt,
   calls |-> <<>>]

\* GameWorld::GameWorld without a player position override and without the
\* welcome message; the first, input-less update raises no event.
GameWorld(pPlayerModel, loadedLevel) ==
  LET g1 == loadLevel(NewGameWorld(pPlayerModel), loadedLevel)
      g2 == updateGameLogic(g1)
  IN IF radarDishesPresent(g2)
       THEN Call(g2, "setMessage", "FindAllRadars")
       ELSE g2

(***************************************************************************)
(* The frame loop.  A frame is updateGameLogic, whose mpSystems->update    *)
(* runs the systems (they change the world and raise events, which are     *)
(* dispatched synchronously to the receive handlers), render, which        *)
(* changes nothing, and processEndOfFrameActions with its three steps.     *)
(* pc is "idle" between frames, "systems" inside mpSystems->update,        *)
(* "exit" after handlePlayerDeath and "teleporter" after handleLevelExit.  *)
(***************************************************************************)

\* Largest score the systems give the player in the model, and the number of
\* bonus globe kills after which the model lets no further globe be shot.
MaxScore == 1
MaxShotGlobes == 2

\* Where the player can walk to, where checkpoints and teleporter exits are.
PlayerPositions == {Vector(0, 2), Vector(2, 2), Vector(7, 2)}
CheckpointPositions == {Vector(2, 2), Vector(4, 2)}
TeleportTargets == {Vector(5, 2), Vector(7, 2)}

TutorialMessageIds == {"RadarsStillFunctional", "FoundRapidFire"}

\* A handler starts with an empty call list.
Begin(g) == [g EXCEPT !.calls = <<>>]

NumCalls(g, name, arg) ==
  Cardinality({k \in 1..Len(g.calls) :
                 g.calls[k] = [call |-> name, arg |-> arg]})

\* The record h after a handler that left the game world g with its calls.
Displaying(h, g) ==
  [h EXCEPT
     !.displayed =
       [id \in TutorialMessageIds |->
          IF NumCalls(g, "setMessage", id) = 0 THEN @[id]
          ELSE IF @[id] = 0 /\ NumCalls(g, "setMessage", id) = 1 THEN 1
          ELSE 2]]

UpdateGameLogic ==
  /\ pc = "idle"
  /\ gw' = updateGameLogic(Begin(gw))
  /\ pc' = "systems"
  /\ history' =
       [history EXCEPT
          !.bigExplosion = @ + NumCalls(gw', "playSound", "BigExplosion"),
          !.destroyedEverything =
            @ + NumCalls(gw', "setMessage", "DestroyedEverything")]
  /\ UNCHANGED dvars

ReceiveCheckPointActivated(position) ==
  /\ pc = "systems"
  /\ gw' = receiveCheckPointActivated(Begin(gw), [mPosition |-> position])
  /\ history' =
       [history EXCEPT
          !.lastCheckpoint =
            Some([mState |-> gw.mpPlayerModel, mPosition |-> position])]
  /\ UNCHANGED pc
  /\ UNCHANGED dvars

ReceivePlayerDied ==
  /\ pc = "systems"
  /\ gw' = receivePlayerDied(Begin(gw), [type |-> "PlayerDied"])
  /\ UNCHANGED <<pc, history>>
  /\ UNCHANGED dvars

ReceivePlayerTookDamage ==
  /\ pc = "systems"
  /\ gw' = receivePlayerTookDamage(Begin(gw), [type |-> "PlayerTookDamage"])
  /\ history' = [history EXCEPT !.tookDamage = TRUE]
  /\ UNCHANGED pc
  /\ UNCHANGED dvars

ReceivePlayerTeleported(position) ==
  /\ pc = "systems"
  /\ gw' = receivePlayerTeleported(Begin(gw), [mNewPosition |-> position])
  /\ UNCHANGED <<pc, history>>
  /\ UNCHANGED dvars

\* What the damage system can kill.
ShootableTypes ==
  {"ShootableCamera", "FireBomb", "ShootableBonusGlobe", "MountedLaserTurret",
   "Reactor", "Enemy"}

\* A system kills a shootable: ShootableKilled is raised for the still live
\* entity, which is destroyed afterwards.
SystemsKillShootable(e) ==
  /\ pc = "systems"
  /\ e \in gw.mEntities
  /\ e.type \in ShootableTypes
  /\ e.type = "ShootableBonusGlobe" =>
       gw.mBonusInfo.mNumShotBonusGlobes < MaxShotGlobes
  /\ LET g == receiveShootableKilled(Begin(gw), [mEntity |-> e])
     IN gw' = [g EXCEPT !.mEntities = @ \ {e}]
  /\ UNCHANGED <<pc, history>>
  /\ UNCHANGED dvars

\* A system removes an entity without an event (an item is collected, a
\* projectile leaves the screen).
SystemsRemoveEntity(e) ==
  /\ pc = "systems"
  /\ e \in gw.mEntities
  /\ e.type \in {"CollectableWeapon", "Merchandise", "ReactorDebris",
                 "RadarDish"}
  /\ gw' = [Begin(gw) EXCEPT !.mEntities = @ \ {e}]
  /\ UNCHANGED <<pc, history>>
  /\ UNCHANGED dvars

\* A trigger comes on screen and is given the Active component.
SystemsActivate(e) ==
  /\ pc = "systems"
  /\ e \in gw.mEntities
  /\ IsTrigger(e)
  /\ ~e.active
  /\ gw' = [Begin(gw) EXCEPT
              !.mEntities = (@ \ {e}) \cup {[e EXCEPT !.active = TRUE]}]
  /\ UNCHANGED <<pc, history>>
  /\ UNCHANGED dvars

\* The player collects points.
SystemsScorePoints ==
  /\ pc = "systems"
  /\ gw.mpPlayerModel.mScore < MaxScore
  /\ gw' = [Begin(gw) EXCEPT !.mpPlayerModel.mScore = @ + 1]
  /\ UNCHANGED <<pc, history>>
  /\ UNCHANGED dvars

\* The player walks.
SystemsMovePlayer(position) ==
  /\ pc = "systems"
  /\ gw.mpSystems.playerPosition # position
  /\ gw' = [Begin(gw) EXCEPT !.mpSystems.playerPosition = position]
  /\ history' = [history EXCEPT !.raisedHere = FALSE]
  /\ UNCHANGED pc
  /\ UNCHANGED dvars

\* A destructible tile of the map is destroyed.
SystemsDestroyTile(tile) ==
  /\ pc = "systems"
  /\ tile \in gw.mLevelData.mMap
  /\ gw' = [Begin(gw) EXCEPT !.mLevelData.mMap = @ \ {tile}]
  /\ UNCHANGED <<pc, history>>
  /\ UNCHANGED dvars

\* processEndOfFrameActions, first step
HandlePlayerDeath ==
  /\ pc = "systems"
  /\ gw' = handlePlayerDeath(Begin(gw))
  /\ pc' = "exit"
  /\ history' = [history EXCEPT !.raisedHere = @ /\ ~gw.mPlayerDied]
  /\ UNCHANGED dvars

\* processEndOfFrameActions, second step
HandleLevelExit ==
  /\ pc = "exit"
  /\ gw' = handleLevelExit(gw)
  /\ pc' = "teleporter"
  /\ history' =
       [Displaying(history, gw') EXCEPT
          !.raisedHere = @ \/ HasCall(gw', "emit", "ExitReached")]
  /\ UNCHANGED dvars

\* processEndOfFrameActions, third step and return
HandleTeleporter ==
  /\ pc = "teleporter"
  /\ gw' = [handleTeleporter(gw) EXCEPT !.mScreenShakeOffsetX = 0]
  /\ pc' = "idle"
  /\ history' =
       [history EXCEPT
          !.raisedHere = @ /\ gw.mTeleportTargetPosition = nullopt]
  /\ UNCHANGED dvars

(***************************************************************************)
(* Levels and specifications.                                              *)
(***************************************************************************)

\* A level with a destructible tile, an enemy and an exit.
RestartLevels ==
  {Level({1},
         <<Actor("Player", Vector(0, 2)),
           Actor("Enemy", Vector(3, 2)),
           Actor("LevelExitTrigger", Vector(9, 2))>>,
         condition) : condition \in {"None", "OnTeleportation"}}

\* The record of a game world constructed from pPlayerModel and loadedLevel:
\* tookDamage tells whether a PlayerTookDamage event was received, raisedHere
\* whether handleLevelExit has raised ExitReached since the player was last
\* moved (by walking, a restart or a teleport), displayed how often each
\* tutorial message was handed to the message display (0, 1, or 2 for more
\* than once).
NewHistory(pPlayerModel, loadedLevel) ==
  [playerModel |-> pPlayerModel, level |-> loadedLevel,
   lastCheckpoint |-> nullopt, bigExplosion |-> 0, destroyedEverything |-> 0,
   tookDamage |-> FALSE, raisedHere |-> FALSE,
   displayed |-> [id \in TutorialMessageIds |-> 0]]

NoLevel == Level({}, <<>>, "None")

\* The game world while only the damage system is looked at.
WIdle ==
  /\ gw = NewGameWorld(PlayerModel(0, {}))
  /\ pc = "idle"
  /\ history = NewHistory(PlayerModel(0, {}), NoLevel)

\* The damage system while only the game world is looked at.
DIdle ==
  /\ es = NoSnapshot
  /\ mScore = 0
  /\ dPc = "idle"
  /\ dCursor = 1
  /\ dStart = NoSnapshot
  /\ dSounds = <<>>
  /\ dDestroyCalls = [e \in EntityIds |-> 0]

\* A game world freshly constructed for one of the given levels.
Constructed(levels) ==
  /\ \E level \in levels :
       /\ gw = GameWorld(PlayerModel(0, {}), level)
       /\ history = NewHistory(PlayerModel(0, {}), level)
  /\ pc = "idle"
  /\ DIdle

Init == Constructed(RestartLevels)

\* Checkpoints, deaths, restarts and teleports.
Next ==
  \/ UpdateGameLogic
  \/ \E p \in CheckpointPositions : ReceiveCheckPointActivated(p)
  \/ ReceivePlayerDied
  \/ \E p \in TeleportTargets : ReceivePlayerTeleported(p)
  \/ \E e \in gw.mEntities : SystemsKillShootable(e)
  \/ \E e \in gw.mEntities : SystemsActivate(e)
  \/ SystemsScorePoints
  \/ \E p \in PlayerPositions : SystemsMovePlayer(p)
  \/ \E t \in gw.mLevelData.mMap : SystemsDestroyTile(t)
  \/ HandlePlayerDeath
  \/ HandleLevelExit
  \/ HandleTeleporter

Spec == Init /\ [][Next]_vars

\* A level with a reactor, a camera and an enemy without an actor tag, with
\* and without the reactor backdrop switch.
ReactorLevels ==
  {Level({1},
         <<Actor("Player", Vector(0, 2)),
           Actor("Reactor", Vector(4, 2)),
           Actor("ShootableCamera", Vector(6, 2)),
           Actor("Enemy", Vector(8, 2))>>,
         condition) : condition \in {"None", "OnReactorDestruction"}}

InitReactor == Constructed(ReactorLevels)

\* The reactor is shot, the player dies and the level or checkpoint restarts.
NextReactor ==
  \/ UpdateGameLogic
  \/ \E p \in CheckpointPositions : ReceiveCheckPointActivated(p)
  \/ ReceivePlayerDied
  \/ \E e \in gw.mEntities : SystemsKillShootable(e)
  \/ \E e \in gw.mEntities : SystemsRemoveEntity(e)
  \/ HandlePlayerDeath
  \/ HandleLevelExit
  \/ HandleTeleporter

SpecReactor == InitReactor /\ [][NextReactor]_vars

\* Levels with no, one and two fire bombs among other bonus-related actors.
BonusLevels ==
  {Level({1},
         <<Actor("Player", Vector(0, 2)),
           Actor("ShootableCamera", Vector(3, 2)),
           Actor("CollectableWeapon", Vector(4, 2))>>, "None"),
   Level({1},
         <<Actor("Player", Vector(0, 2)),
           Actor("FireBomb", Vector(3, 2)),
           Actor("ShootableBonusGlobe", Vector(4, 2)),
           Actor("Merchandise", Vector(5, 2))>>, "None"),
   Level({1},
         <<Actor("Player", Vector(0, 2)),
           Actor("FireBomb", Vector(3, 2)),
           Actor("FireBomb", Vector(4, 2)),
           Actor("MountedLaserTurret", Vector(5, 2))>>, "None")}

InitBonus == Constructed(BonusLevels)

\* Bonus-related entities are shot or collected, the player is hurt, dies and
\* the level restarts.
NextBonus ==
  \/ UpdateGameLogic
  \/ ReceivePlayerTookDamage
  \/ ReceivePlayerDied
  \/ \E e \in gw.mEntities : SystemsKillShootable(e)
  \/ \E e \in gw.mEntities : SystemsRemoveEntity(e)
  \/ HandlePlayerDeath
  \/ HandleLevelExit
  \/ HandleTeleporter

SpecBonus == InitBonus /\ [][NextBonus]_vars

InflictorSlots ==
  {DeadEntity} \cup {Inflictor(x, a) : x \in Positions, a \in Amounts}

TargetSlots(e) ==
  {DeadEntity} \cup
  {Target(x, h, GivenScoreOf(e)) : x \in Positions, h \in Healths}

SlotChoices(e) == IF e \in InflictorIds THEN InflictorSlots ELSE TargetSlots(e)

\* Every way to fill the first n entity slots.
RECURSIVE Worlds(_)
Worlds(n) ==
  IF n = 0 THEN {<<>>}
  ELSE {Append(w, s) : w \in Worlds(n - 1), s \in SlotChoices(n)}

DInit ==
  /\ es \in Worlds(NumEntities)
  /\ mScore = 0
  /\ dPc = "idle"
  /\ dCursor = 1
  /\ dStart = NoSnapshot
  /\ dSounds = <<>>
  /\ dDestroyCalls = [e \in EntityIds |-> 0]
  /\ WIdle

DNext ==
  \/ DBeginUpdate
  \/ DInflictorCallback
  \/ DWorldCollisionPass
  \/ \E e \in EntityIds, x \in Positions : DMove(e, x)
  \/ \E e \in EntityIds : DCollide(e)

SpecDamage == DInit /\ [][DNext]_vars

(***************************************************************************)
(* Level exits, radar dishes and tutorial messages.                        *)
(***************************************************************************)

\* Where the player can stand around the exit triggers of ExitLevels: left of
\* them, touching the first from the left, inside both, right of the first,
\* below both and above both.
ExitPlayerPositions ==
  {Vector(0, 2), Vector(1, 2), Vector(3, 2), Vector(4, 2), Vector(3, 3),
   Vector(3, 1)}

\* A system raises ExitReached itself (with or without the radar dish check).
ReceiveExitReached(checkRadarDishes) ==
  /\ pc = "systems"
  /\ gw' = receiveExitReached(Begin(gw),
                              [mCheckRadarDishes |-> checkRadarDishes])
  /\ history' = Displaying(history, gw')
  /\ UNCHANGED pc
  /\ UNCHANGED dvars

ReceiveTutorialMessage(id) ==
  /\ pc = "systems"
  /\ gw' = receiveTutorialMessage(Begin(gw), [mId |-> id])
  /\ history' = Displaying(history, gw')
  /\ UNCHANGED pc
  /\ UNCHANGED dvars

\* Two exit triggers next to each other and a trigger of another type, with
\* and without a radar dish.
ExitLevels ==
  {Level({1},
         <<Actor("Player", Vector(0, 2)),
           Actor("LevelExitTrigger", Vector(3, 2)),
           Actor("LevelExitTrigger", Vector(4, 2)),
           Actor("OtherTrigger", Vector(3, 2))>>, "None"),
   Level({1},
         <<Actor("Player", Vector(0, 2)),
           Actor("LevelExitTrigger", Vector(3, 2)),
           Actor("LevelExitTrigger", Vector(4, 2)),
           Actor("OtherTrigger", Vector(3, 2)),
           Actor("RadarDish", Vector(6, 2))>>, "None")}

InitExit == Constructed(ExitLevels)

\* The player walks to the exit, radar dishes are destroyed, tutorial messages
\* are raised, the player dies and the level or checkpoint restarts.
NextExit ==
  \/ UpdateGameLogic
  \/ \E c \in BOOLEAN : ReceiveExitReached(c)
  \/ \E id \in TutorialMessageIds : ReceiveTutorialMessage(id)
  \/ ReceiveCheckPointActivated(Vector(1, 2))
  \/ ReceivePlayerDied
  \/ \E e \in gw.mEntities : SystemsRemoveEntity(e)
  \/ \E e \in gw.mEntities : SystemsActivate(e)
  \/ \E p \in ExitPlayerPositions : SystemsMovePlayer(p)
  \/ HandlePlayerDeath
  \/ HandleLevelExit
  \/ HandleTeleporter

SpecExit == InitExit /\ [][NextExit]_vars

(***************************************************************************)
(* Every event the game world subscribes to.                               *)
(***************************************************************************)

ReceivePlayerMessage(text) ==
  /\ pc = "systems"
  /\ gw' = receivePlayerMessage(Begin(gw), [mText |-> text])
  /\ UNCHANGED <<pc, history>>
  /\ UNCHANGED dvars

ReceiveScreenFlash(color) ==
  /\ pc = "systems"
  /\ gw' = receiveScreenFlash(Begin(gw), [mColor |-> color])
  /\ UNCHANGED <<pc, history>>
  /\ UNCHANGED dvars

ReceiveScreenShake(amount) ==
  /\ pc = "systems"
  /\ gw' = receiveScreenShake(Begin(gw), [mAmount |-> amount])
  /\ UNCHANGED <<pc, history>>
  /\ UNCHANGED dvars

\* The boss comes on screen.
ReceiveBossActivated(e) ==
  /\ pc = "systems"
  /\ e \in gw.mEntities
  /\ e.type = "Enemy"
  /\ gw' = receiveBossActivated(Begin(gw), [mBossEntity |-> e.id])
  /\ UNCHANGED <<pc, history>>
  /\ UNCHANGED dvars

\* A level with a reactor, a bonus globe, a radar dish and a boss.
EventLevels ==
  {Level({1},
         <<Actor("Player", Vector(0, 2)),
           Actor("Reactor", Vector(4, 2)),
           Actor("ShootableBonusGlobe", Vector(5, 2)),
           Actor("RadarDish", Vector(6, 2)),
           Actor("Enemy", Vector(8, 2))>>,
         "OnReactorDestruction")}

InitEvents == Constructed(EventLevels)

\* One frame up to the end of mpSystems->update: the systems raise every kind
\* of event, in any order and number.
NextEvents ==
  \/ UpdateGameLogic
  \/ ReceiveCheckPointActivated(Vector(2, 2))
  \/ \E c \in BOOLEAN : ReceiveExitReached(c)
  \/ ReceivePlayerDied
  \/ ReceivePlayerTookDamage
  \/ ReceivePlayerMessage("AccessGranted")
  \/ ReceivePlayerTeleported(Vector(5, 2))
  \/ ReceiveScreenFlash("White")
  \/ ReceiveScreenShake(2)
  \/ ReceiveTutorialMessage("FoundRapidFire")
  \/ \E e \in gw.mEntities : SystemsKillShootable(e)
  \/ \E e \in gw.mEntities : ReceiveBossActivated(e)

SpecEvents == InitEvents /\ [][NextEvents]_vars

(***************************************************************************)
(* Backdrop switches.                                                      *)
(***************************************************************************)

\* A level with a reactor, under each backdrop switch condition.
BackdropLevels ==
  {Level({1},
         <<Actor("Player", Vector(0, 2)),
           Actor("Reactor", Vector(4, 2))>>,
         condition) :
     condition \in {"None", "OnTeleportation", "OnReactorDestruction"}}

InitBackdrop == Constructed(BackdropLevels)

\* The reactor is shot, the player teleports, dies, and the level or the
\* checkpoint restarts.
NextBackdrop ==
  \/ UpdateGameLogic
  \/ ReceiveCheckPointActivated(Vector(2, 2))
  \/ ReceivePlayerDied
  \/ ReceivePlayerTeleported(Vector(5, 2))
  \/ \E e \in gw.mEntities : SystemsKillShootable(e)
  \/ HandlePlayerDeath
  \/ HandleLevelExit
  \/ HandleTeleporter

SpecBackdrop == InitBackdrop /\ [][NextBackdrop]_vars

(***************************************************************************)
(* Claims about the damage infliction system (checked under SpecDamage).   *)
(***************************************************************************)

\* The inflictor the next callback step is run for (0: none is left).
CurrentInflictor == NextWith(es, InflictorSignature, dCursor)

\* The live shootables whose world-space box intersects that of inflictor i.
Intersecting(ents, i) ==
  {t \in EntityIds :
     /\ HasComponents(ents[t], ShootableSignature)
     /\ intersects(WorldBox(ents[t]), WorldBox(ents[i]))}

Lowest(S) == CHOOSE t \in S : \A o \in S : t <= o

CallbackStep == InUpdate /\ CurrentInflictor # 0

\* C1: when an inflictor is processed and its box intersects a live
\* shootable, the inflictor is destroyed (by exactly one destroy call) and the
\* first intersecting target in enumeration order, and no other entity, has its
\* health reduced by the inflictor's amount; an inflictor that intersects
\* nothing is left alone by the first pass.  No entity is ever destroyed twice.
C1_FirstMatchWins ==
  [][/\ \A e \in EntityIds : dDestroyCalls'[e] <= 1
     /\ CallbackStep =>
          LET i == CurrentInflictor
              hit == Intersecting(es, i)
          IN IF hit = {}
               THEN es' = es /\ dDestroyCalls' = dDestroyCalls
               ELSE LET t == Lowest(hit)
                    IN /\ ~es'[i].alive
                       /\ dDestroyCalls'[i] = dDestroyCalls[i] + 1
                       /\ es'[t] # es[t]
                       /\ es'[t].alive =>
                            es'[t] = [es[t] EXCEPT
                                        !.health = @ - es[i].amount]
                       /\ ~es'[t].alive => es[t].health - es[i].amount <= 0
                       /\ \A o \in EntityIds \ {i, t} :
                            /\ es'[o] = es[o]
                            /\ dDestroyCalls'[o] = dDestroyCalls[o]]_vars

\* Inflictor 1 overlapped both targets 2 and 4 and has just been processed:
\* it is gone, target 2 took the damage and survived, target 4 is untouched.
C1_Witness ==
  /\ dPc = "pass1"
  /\ dCursor = 2
  /\ Intersecting(dStart, 1) = {2, 4}
  /\ ~es[1].alive
  /\ dDestroyCalls[1] = 1
  /\ es[2].alive
  /\ es[2].health = dStart[2].health - dStart[1].amount
  /\ es[4] = dStart[4]

\* C2: a hit that brings the target's health to <= 0 destroys the target and
\* adds exactly its givenScore to the score; a hit that leaves health > 0
\* leaves the target alive with the reduced health and the score unchanged.
C2_KillOrSurvive ==
  [][CallbackStep /\ Intersecting(es, CurrentInflictor) # {} =>
       LET i == CurrentInflictor
           t == Lowest(Intersecting(es, i))
           health == es[t].health - es[i].amount
       IN IF health <= 0
            THEN /\ ~es'[t].alive
                 /\ mScore' = mScore + es[t].givenScore
            ELSE /\ HasComponents(es'[t], ShootableSignature)
                 /\ es'[t].health = health
                 /\ mScore' = mScore]_vars

\* One inflictor of amount 2 on one shootable of health 1 and score 200: after
\* the update both are destroyed and the score has grown by 200.
C2_Witness ==
  /\ dPc = "done"
  /\ dStart[1] = Inflictor(0, 2)
  /\ dStart[2] = Target(0, 1, 200)
  /\ \A e \in EntityIds \ {1, 2} : ~dStart[e].alive
  /\ ~es[1].alive
  /\ ~es[2].alive
  /\ mScore = 200

RECURSIVE SumOver(_, _)
SumOver(S, f) ==
  IF S = {} THEN 0
  ELSE LET e == CHOOSE x \in S : TRUE IN f[e] + SumOver(S \ {e}, f)

\* C3: the score is the sum of the givenScore of the shootables killed so far,
\* each counted once, and no live shootable has health <= 0.
C3_ScoreOncePerKill ==
  /\ mScore =
       SumOver({t \in TargetIds : dDestroyCalls[t] > 0},
               [t \in TargetIds |-> GivenScoreOf(t)])
  /\ \A t \in EntityIds :
       HasComponents(es[t], {"Shootable"}) => es[t].health > 0

\* Inflictors 1 and 3 both overlapped target 2 (and nothing else) in one
\* update: the first one killed it, its score was credited once, and the
\* second inflictor found nothing left to hit.
C3_Witness ==
  /\ dPc = "done"
  /\ Intersecting(dStart, 1) = {2}
  /\ Intersecting(dStart, 3) = {2}
  /\ dStart[1].alive /\ dStart[3].alive
  /\ ~es[2].alive
  /\ ~es[1].alive
  /\ es[3].alive
  /\ mScore = GivenScoreOf(2)

\* C4: the world-collision pass destroys every entity that carried
\* DamageInflicting and CollidedWithWorld when update() was entered, and
\* changes neither a shootable nor the score.
C4_WorldCollision ==
  [][InUpdate /\ dPc' = "done" =>
       /\ \A e \in EntityIds :
            HasComponents(dStart[e], WorldCollisionSignature) => ~es'[e].alive
       /\ \A t \in EntityIds :
            HasComponents(es[t], {"Shootable"}) => es'[t] = es[t]
       /\ mScore' = mScore]_vars

\* No shootable existed; both projectiles had run into the map and are gone.
C4_Witness ==
  /\ dPc = "done"
  /\ \A t \in TargetIds : ~dStart[t].alive
  /\ HasComponents(dStart[1], WorldCollisionSignature)
  /\ HasComponents(dStart[3], WorldCollisionSignature)
  /\ ~es[1].alive /\ ~es[3].alive
  /\ dDestroyCalls[1] = 1 /\ dDestroyCalls[3] = 1


(***************************************************************************)
(* Claims about the game world.                                            *)
(***************************************************************************)

\* The step in which processEndOfFrameActions runs handlePlayerDeath.
DeathStep == pc = "systems" /\ pc' = "exit"

Restarts(g) ==
  NumCalls(g, "restartFromCheckpoint", "")
    + NumCalls(g, "restartFromBeginning", "")

\* C5: right after a restart from a checkpoint the live player model is the
\* snapshot of the most recent CheckPointActivated event and the player stands
\* at that event's position; right after a level restart the live player model
\* is the one the game world was constructed with, and map and entities are
\* those of the level as loaded.
C5_RestartRestores ==
  pc = "exit" =>
    /\ HasCall(gw, "restartFromCheckpoint", "") =>
         /\ history.lastCheckpoint # nullopt
         /\ gw.mpPlayerModel = ValueOf(history.lastCheckpoint).mState
         /\ gw.mpSystems.playerPosition =
              ValueOf(history.lastCheckpoint).mPosition
    /\ HasCall(gw, "restartFromBeginning", "") =>
         /\ history.lastCheckpoint = nullopt
         /\ gw.mpPlayerModel = history.playerModel
         /\ gw.mLevelData.mMap = history.level.mMap
         /\ gw.mEntities = createEntitiesForLevel(history.level.mActors)

\* A restart from a checkpoint whose snapshot differs from the level-start
\* snapshot and whose position is not where the level starts.
C5_Witness ==
  /\ pc = "exit"
  /\ HasCall(gw, "restartFromCheckpoint", "")
  /\ gw.mpPlayerModel # gw.mPlayerModelAtLevelStart
  /\ gw.mpPlayerModel = ValueOf(history.lastCheckpoint).mState
  /\ gw.mpSystems.playerPosition = Vector(4, 2)

\* C6: the handlePlayerDeath step of processEndOfFrameActions performs exactly
\* one restart if a death is pending (from the checkpoint if one is active,
\* else of the level) and none otherwise, and leaves no death pending; no
\* other step restarts anything.
C6_OneRestartPerDeath ==
  [][/\ DeathStep =>
          /\ ~gw'.mPlayerDied
          /\ IF ~gw.mPlayerDied THEN Restarts(gw') = 0
             ELSE IF gw.mActivatedCheckpoint # nullopt
               THEN /\ NumCalls(gw', "restartFromCheckpoint", "") = 1
                    /\ NumCalls(gw', "restartFromBeginning", "") = 0
               ELSE /\ NumCalls(gw', "restartFromCheckpoint", "") = 0
                    /\ NumCalls(gw', "restartFromBeginning", "") = 1
     /\ ~DeathStep => Restarts(gw') <= Restarts(gw)]_vars

\* A pending death has just been processed without a checkpoint: the level
\* was restarted once and no death is pending.
C6_Witness ==
  /\ pc = "exit"
  /\ NumCalls(gw, "restartFromBeginning", "") = 1
  /\ Restarts(gw) = 1
  /\ ~gw.mPlayerDied
  /\ gw.mActivatedCheckpoint = nullopt

Pending(g) == g.mPlayerDied \/ g.mTeleportTargetPosition # nullopt

\* C7: a step that records a death or a teleport target changes neither the
\* player model, the player position, the backdrop, the map nor the entities;
\* while the systems run nothing has been faded, restarted or teleported; and
\* when processEndOfFrameActions has returned nothing is pending.
C7_DeferredToEndOfFrame ==
  [][/\ (/\ pc = "systems" /\ pc' = "systems"
         /\ \/ gw'.mPlayerDied /\ ~gw.mPlayerDied
            \/ /\ gw'.mTeleportTargetPosition # nullopt
               /\ gw'.mTeleportTargetPosition # gw.mTeleportTargetPosition) =>
          /\ gw'.mpPlayerModel = gw.mpPlayerModel
          /\ gw'.mpSystems = gw.mpSystems
          /\ gw'.mLevelData = gw.mLevelData
          /\ gw'.mEntities = gw.mEntities
          /\ gw'.mBackdropSwitched = gw.mBackdropSwitched
     /\ pc' = "systems" =>
          /\ Restarts(gw') = 0
          /\ NumCalls(gw', "fadeOutScreen", "") = 0
     /\ pc' = "idle" => ~Pending(gw')]_vars

\* processEndOfFrameActions has returned after a checkpoint restart and a
\* teleport: nothing is pending any more.
C7_Witness ==
  /\ pc = "idle"
  /\ HasCall(gw, "restartFromCheckpoint", "")
  /\ NumCalls(gw, "fadeOutScreen", "") = 2
  /\ ~Pending(gw)

\* C8: the checkpoint data is always that of the most recent
\* CheckPointActivated event: absent before the first, and from then on its
\* player-model snapshot and position, whatever happens in between.
C8_CheckpointPersists ==
  gw.mActivatedCheckpoint = history.lastCheckpoint

\* The checkpoint is still there after a restart from it, a teleport and
\* points scored since.
C8_Witness ==
  /\ pc = "systems"
  /\ gw.mActivatedCheckpoint # nullopt
  /\ gw.mActivatedCheckpoint = history.lastCheckpoint
  /\ gw.mpPlayerModel # ValueOf(gw.mActivatedCheckpoint).mState
  /\ gw.mpSystems.playerPosition = Vector(5, 2)
  /\ gw.mPlayerDied

FlashFrames == {1, 3, 5, 7, 9, 11}

Started(g) == g.mReactorDestructionFramesElapsed # nullopt

Frames(g) == ValueOf(g.mReactorDestructionFramesElapsed)

\* C9 (checked under SpecReactor): the counter starts at 0 and is then moved
\* only by updateGameLogic, by one per call up to 14; the call that finds it
\* at 1, 3, 5, 7, 9 or 11 flashes the backdrop white and plays BigExplosion,
\* the call that finds it at 13 sets the "destroyed everything" message, every
\* other call does neither; so the sound has been played once per flash frame
\* passed (six times in all) and the message set once, from 14 on.
C9_ReactorSequence ==
  [][/\ ~Started(gw) /\ Started(gw') => Frames(gw') = 0
     /\ Started(gw) =>
          /\ Started(gw')
          /\ IF pc = "idle"
               THEN /\ Frames(gw') = IF Frames(gw) < 14 THEN Frames(gw) + 1
                                     ELSE 14
                    /\ (gw'.mBackdropFlashColor = Some("White"))
                         <=> Frames(gw) \in FlashFrames
                    /\ NumCalls(gw', "playSound", "BigExplosion") =
                         IF Frames(gw) \in FlashFrames THEN 1 ELSE 0
                    /\ NumCalls(gw', "setMessage", "DestroyedEverything") =
                         IF Frames(gw) = 13 THEN 1 ELSE 0
               ELSE Frames(gw') = Frames(gw)
     /\ history'.bigExplosion =
          IF Started(gw')
            THEN Cardinality({f \in FlashFrames : f < Frames(gw')})
            ELSE 0
     /\ history'.destroyedEverything =
          IF Started(gw') /\ Frames(gw') >= 14 THEN 1 ELSE 0]_vars

\* The sequence is over and a further update has done nothing: six explosions
\* and one message in all.
C9_Witness ==
  /\ pc = "systems"
  /\ Started(gw)
  /\ Frames(gw) = 14
  /\ gw.calls = <<>>
  /\ gw.mBackdropFlashColor = nullopt
  /\ history.bigExplosion = 6
  /\ history.destroyedEverything = 1

LoadedCount(type) ==
  Cardinality({k \in 1..Len(history.level.mActors) :
                 history.level.mActors[k].type = type})

CurrentCount(type) == Cardinality({e \in gw.mEntities : e.type = type})

AllGone(type) == LoadedCount(type) > 0 /\ CurrentCount(type) = 0

\* C11 (checked under SpecBonus): the camera, merchandise, weapon and laser
\* turret bonuses are achieved exactly when the level was loaded with at least
\* one entity of the tag and none exists now; NoDamageTaken is achieved exactly
\* when no PlayerTookDamage event was received since the level was loaded.
C11_ItemBonuses ==
  LET bonuses == achievedBonuses(gw)
  IN /\ ("DestroyedAllCameras" \in bonuses) <=> AllGone("ShootableCamera")
     /\ ("CollectedAllMerchandise" \in bonuses) <=> AllGone("Merchandise")
     /\ ("CollectedEveryWeapon" \in bonuses) <=> AllGone("CollectableWeapon")
     /\ ("DestroyedAllSpinningLaserTurrets" \in bonuses)
          <=> AllGone("MountedLaserTurret")
     /\ ("NoDamageTaken" \in bonuses) <=> ~history.tookDamage

\* The only camera of the level has been shot after the player was hurt: the
\* camera bonus is achieved, the no-damage bonus is not.
C11_Witness ==
  /\ LoadedCount("ShootableCamera") = 1
  /\ CurrentCount("ShootableCamera") = 0
  /\ history.tookDamage
  /\ achievedBonuses(gw) \cap {"DestroyedAllCameras", "NoDamageTaken"}
       = {"DestroyedAllCameras"}

(***************************************************************************)
(* Claims about level exits (checked under SpecExit).                      *)
(***************************************************************************)

\* The number of ExitReached events handleLevelExit has raised in this frame.
Emitted(g) == NumCalls(g, "emit", "ExitReached")

\* The step in which processEndOfFrameActions runs handleLevelExit.
ExitStep == pc = "exit" /\ pc' = "teleporter"

\* What an ExitReached event asking for the radar check (or not) has to do.
ExitReachedEffect(checkRadarDishes) ==
  IF CurrentCount("RadarDish") > 0 /\ checkRadarDishes
    THEN /\ gw'.mLevelFinished = gw.mLevelFinished
         /\ hasBeenShown(gw'.mpPlayerModel, "RadarsStillFunctional")
         /\ HasCall(gw', "setMessage", "RadarsStillFunctional")
              <=> ~hasBeenShown(gw.mpPlayerModel, "RadarsStillFunctional")
    ELSE gw'.mLevelFinished

\* C12: an ExitReached event, raised by a system or by handleLevelExit, leaves
\* levelFinished as it is and asks for the RadarsStillFunctional tutorial
\* message when radar dishes are present and the event requests the check, and
\* sets levelFinished in every other case; no other step sets levelFinished.
C12_ExitReached ==
  [][/\ \A c \in BOOLEAN : ReceiveExitReached(c) => ExitReachedEffect(c)
     /\ (ExitStep /\ Emitted(gw') > 0) => ExitReachedEffect(TRUE)
     /\ (gw'.mLevelFinished /\ ~gw.mLevelFinished) =>
          \/ \E c \in BOOLEAN : ReceiveExitReached(c)
          \/ ExitStep /\ Emitted(gw') > 0]_vars

\* handleLevelExit has raised ExitReached with a radar dish present: the
\* tutorial message was set and the level is not finished.
C12_Witness ==
  /\ pc = "teleporter"
  /\ Emitted(gw) > 0
  /\ CurrentCount("RadarDish") > 0
  /\ HasCall(gw, "setMessage", "RadarsStillFunctional")
  /\ ~gw.mLevelFinished

\* The active LevelExit triggers the player qualifies for: the bottom row of
\* the two by two hit box is at or above the trigger, and the trigger's column
\* is one of the box's two columns or the one right of them.
Qualifying ==
  LET p == gw.mpSystems.playerPosition
  IN {e \in gw.mEntities :
        /\ e.type = "LevelExitTrigger"
        /\ e.active
        /\ p.y <= e.pos.y
        /\ p.x <= e.pos.x
        /\ e.pos.x <= p.x + 2}

\* C13 as stated: handleLevelExit raises ExitReached once for each qualifying
\* active LevelExit trigger and for no other trigger, and changes levelFinished
\* only by raising the event.
C13_Original ==
  [][ExitStep =>
       /\ Emitted(gw') = Cardinality(Qualifying)
       /\ gw'.mLevelFinished # gw.mLevelFinished => Emitted(gw') > 0]_vars

\* C13 (amended): a qualifying active LevelExit trigger raises ExitReached
\* exactly when the level is not finished at the moment the trigger is
\* visited: none raises in a level that is finished, only the first raises
\* when its event finishes the level, each raises while radar dishes keep the
\* level unfinished; no other trigger raises, and handleLevelExit changes
\* levelFinished only by raising the event.
C13_ExitTrigger ==
  [][ExitStep =>
       /\ Emitted(gw') =
            IF gw.mLevelFinished THEN 0
            ELSE IF CurrentCount("RadarDish") > 0
              THEN Cardinality(Qualifying)
            ELSE IF Qualifying # {} THEN 1 ELSE 0
       /\ gw'.mLevelFinished # gw.mLevelFinished => Emitted(gw') > 0]_vars

\* The player touches the first exit trigger from the left, that trigger and
\* the trigger of another type are active: one ExitReached was raised.
C13_Witness ==
  /\ pc = "teleporter"
  /\ gw.mpSystems.playerPosition = Vector(1, 2)
  /\ \E e \in gw.mEntities : e.type = "OtherTrigger" /\ e.active
  /\ \E e \in gw.mEntities :
       e.type = "LevelExitTrigger" /\ ~e.active /\ e.pos = Vector(4, 2)
  /\ Emitted(gw) = 1

\* C14 as stated: in a frame in which the player qualifies for an active exit
\* trigger handleLevelExit raises ExitReached once, however many triggers
\* qualify, unless it has raised it in an earlier frame since the player came
\* to stand there; then it raises none.
C14_Original ==
  [][ExitStep =>
       /\ Emitted(gw') <= 1
       /\ history.raisedHere => Emitted(gw') = 0
       /\ (Qualifying # {} /\ ~history.raisedHere) => Emitted(gw') = 1]_vars

\* C14 (amended): in an unfinished level without radar dishes a player in a
\* qualifying position makes handleLevelExit raise ExitReached exactly once,
\* however many triggers qualify; that event finishes the level, the level
\* stays finished, and in a finished level handleLevelExit raises nothing.
\* While radar dishes are present it raises ExitReached once for every
\* qualifying active trigger in every frame; these events leave the level
\* unfinished and set the tutorial message at most once, and only if it was
\* not shown before.
C14_ExitRaisedOnce ==
  [][/\ gw.mLevelFinished => gw'.mLevelFinished
     /\ ExitStep =>
          /\ gw.mLevelFinished => Emitted(gw') = 0
          /\ (~gw.mLevelFinished /\ CurrentCount("RadarDish") = 0) =>
               /\ Emitted(gw') = IF Qualifying # {} THEN 1 ELSE 0
               /\ gw'.mLevelFinished <=> Qualifying # {}
          /\ (~gw.mLevelFinished /\ CurrentCount("RadarDish") > 0) =>
               /\ Emitted(gw') = Cardinality(Qualifying)
               /\ ~gw'.mLevelFinished
               /\ NumCalls(gw', "setMessage", "RadarsStillFunctional") =
                    IF /\ Qualifying # {}
                       /\ ~hasBeenShown(gw.mpPlayerModel,
                                        "RadarsStillFunctional")
                      THEN 1 ELSE 0]_vars

\* Both exit triggers are active and the player stands inside both, without a
\* radar dish: one ExitReached was raised and the level is finished.
C14_Witness ==
  /\ pc = "teleporter"
  /\ gw.mpSystems.playerPosition = Vector(3, 2)
  /\ \A e \in gw.mEntities : e.type = "LevelExitTrigger" => e.active
  /\ CurrentCount("RadarDish") = 0
  /\ Emitted(gw) = 1
  /\ gw.mLevelFinished

(***************************************************************************)
(* Claims about the bonus bookkeeping across restarts (SpecBonus).         *)
(***************************************************************************)

\* C15: right after a level restart the shot-bonus-globe counter is 0 and the
\* took-damage flag is false, and ShotAllBonusGlobes is achieved exactly when
\* no bonus globe of the level as it now stands is left to shoot.
C15_BonusInfoResetOnRestart ==
  /\ (pc = "exit" /\ NumCalls(gw, "restartFromBeginning", "") = 1) =>
       /\ gw.mBonusInfo.mNumShotBonusGlobes = 0
       /\ ~gw.mBonusInfo.mPlayerTookDamage
  /\ ("ShotAllBonusGlobes" \in achievedBonuses(gw))
       <=> CurrentCount("ShootableBonusGlobe") = 0

(***************************************************************************)
(* Claims about reactor kills (SpecReactor).                               *)
(***************************************************************************)

\* The entities a step has created.
Created == gw'.mEntities \ gw.mEntities

\* What the kill of reactor e has to do.
ReactorKillEffect(e) ==
  LET first ==
        /\ ~Started(gw)
        /\ history.level.mBackdropSwitchCondition = "OnReactorDestruction"
  IN /\ gw'.mScreenFlashColor = Some("INGAME_PALETTE[7]")
     /\ Cardinality(Created) = 2
     /\ \E l, r \in Created :
          /\ l.type = "ReactorDebris" /\ r.type = "ReactorDebris"
          /\ l.pos = Vector(e.pos.x - 1, e.pos.y)
          /\ r.pos = Vector(e.pos.x + 3, e.pos.y)
     /\ NumCalls(gw', "createProjectile", "Left") = 1
     /\ NumCalls(gw', "createProjectile", "Right") = 1
     /\ IF first
          THEN /\ NumCalls(gw', "switchBackdrops", "") = 1
               /\ gw'.mpSystems.backdropsSwapped = ~gw.mpSystems.backdropsSwapped
               /\ Started(gw') /\ Frames(gw') = 0
          ELSE /\ NumCalls(gw', "switchBackdrops", "") = 0
               /\ gw'.mpSystems.backdropsSwapped = gw.mpSystems.backdropsSwapped
               /\ gw'.mBackdropSwitched = gw.mBackdropSwitched
               /\ gw'.mReactorDestructionFramesElapsed =
                    gw.mReactorDestructionFramesElapsed

\* C16: the kill of a reactor sets the screen flash and creates two debris
\* projectiles, one tile left of and three tiles right of the reactor; it swaps
\* the backdrop and starts the counter at 0 only if the level's condition is
\* OnReactorDestruction and the counter was never started, and the counter,
\* once started, is never cleared, restarts included, so that no later kill
\* swaps or restarts.  The kill of an entity without an ActorTag, or tagged
\* neither Reactor nor ShootableBonusGlobe, changes nothing in the game world
\* (the entity is destroyed afterwards).
C16_ReactorKill ==
  [][/\ Started(gw) => Started(gw')
     /\ \A e \in gw.mEntities :
          SystemsKillShootable(e) =>
            IF e.type = "Reactor" THEN ReactorKillEffect(e)
            ELSE e.type # "ShootableBonusGlobe" =>
                   gw' = [Begin(gw) EXCEPT !.mEntities = @ \ {e}]]_vars

\* The reactor of a level with the reactor backdrop switch is killed a second
\* time, after a restart: debris is created, the backdrop is left alone and
\* the counter goes on.
C16_Witness ==
  /\ pc = "systems"
  /\ history.level.mBackdropSwitchCondition = "OnReactorDestruction"
  /\ HasCall(gw, "createProjectile", "Left")
  /\ ~HasCall(gw, "switchBackdrops", "")
  /\ Started(gw)
  /\ ~gw.mBackdropSwitched

(***************************************************************************)
(* Claims about pending deaths and teleports (Spec).                       *)
(***************************************************************************)

\* C17: a death and a teleport target are never pending together, and when
\* processEndOfFrameActions has returned it has not both restarted (the level
\* or from the checkpoint) and teleported the player.
C17_OnePendingTransition ==
  /\ ~(gw.mPlayerDied /\ gw.mTeleportTargetPosition # nullopt)
  /\ pc = "idle" =>
       ~(Restarts(gw) > 0 /\ NumCalls(gw, "fadeOutScreen", "") > 1)

(***************************************************************************)
(* Claims about tutorial messages (SpecExit).                              *)
(***************************************************************************)

\* C18 as stated: no tutorial message is handed to the message display more
\* than once.
C18_Original == \A id \in TutorialMessageIds : history.displayed[id] <= 1

\* How often the step has handed tutorial message id to the message display
\* (handleLevelExit and handleTeleporter add to the calls of handlePlayerDeath).
SetInStep(id) ==
  NumCalls(gw', "setMessage", id)
    - IF pc \in {"exit", "teleporter"}
        THEN NumCalls(gw, "setMessage", id) ELSE 0

\* C18 (amended): a step hands a tutorial message to the message display at
\* most once, only if the player model does not record it as shown, and then
\* the player model records it; a recorded id is forgotten only by the restart
\* that handlePlayerDeath runs for a pending death (which puts back the player
\* model of the level start or of the checkpoint).
C18_TutorialShownOnce ==
  [][\A id \in TutorialMessageIds :
       /\ SetInStep(id) <= 1
       /\ SetInStep(id) = 1 =>
            /\ ~hasBeenShown(gw.mpPlayerModel, id)
            /\ hasBeenShown(gw'.mpPlayerModel, id)
       /\ (hasBeenShown(gw.mpPlayerModel, id)
             /\ ~hasBeenShown(gw'.mpPlayerModel, id)) =>
            DeathStep /\ gw.mPlayerDied]_vars

\* A tutorial message was shown once and is asked for again: nothing is handed
\* to the message display.
C18_Witness ==
  /\ pc = "systems"
  /\ history.displayed["FoundRapidFire"] = 1
  /\ hasBeenShown(gw.mpPlayerModel, "FoundRapidFire")
  /\ gw.calls = <<>>
  /\ history.displayed["RadarsStillFunctional"] = 1
  /\ CurrentCount("RadarDish") > 0

(***************************************************************************)
(* Claims about delivering an event twice (SpecEvents).                    *)
(***************************************************************************)

\* The game world without the record of the calls it made to the message
\* display, the service provider and the systems.
Quiet(g) == [g EXCEPT !.calls = <<>>]

\* Handler h, given the event again right after the step delivered it, leaves
\* the game world as the step left it.
Again(h(_, _), event) == Quiet(h(gw', event)) = Quiet(gw')

KilledOnce(e) == receiveShootableKilled(Begin(gw), [mEntity |-> e])

KilledTwice(e) == receiveShootableKilled(KilledOnce(e), [mEntity |-> e])

\* The handlers that set a member from the event, or set once what is not set.
SettingHandlersIdempotent ==
  /\ ReceiveCheckPointActivated(Vector(2, 2)) =>
       Again(receiveCheckPointActivated, [mPosition |-> Vector(2, 2)])
  /\ \A c \in BOOLEAN :
       ReceiveExitReached(c) =>
         Again(receiveExitReached, [mCheckRadarDishes |-> c])
  /\ ReceivePlayerDied => Again(receivePlayerDied, [type |-> "PlayerDied"])
  /\ ReceivePlayerTookDamage =>
       Again(receivePlayerTookDamage, [type |-> "PlayerTookDamage"])
  /\ ReceivePlayerMessage("AccessGranted") =>
       Again(receivePlayerMessage, [mText |-> "AccessGranted"])
  /\ ReceivePlayerTeleported(Vector(5, 2)) =>
       Again(receivePlayerTeleported, [mNewPosition |-> Vector(5, 2)])
  /\ ReceiveScreenFlash("White") =>
       Again(receiveScreenFlash, [mColor |-> "White"])
  /\ ReceiveScreenShake(2) => Again(receiveScreenShake, [mAmount |-> 2])
  /\ ReceiveTutorialMessage("FoundRapidFire") =>
       Again(receiveTutorialMessage, [mId |-> "FoundRapidFire"])
  /\ \A e \in gw.mEntities :
       ReceiveBossActivated(e) =>
         Again(receiveBossActivated, [mBossEntity |-> e.id])

\* C19 as stated: every handler, ShootableKilled included, leaves the game
\* world after two deliveries of an event as after one.
C19_Original ==
  [][/\ SettingHandlersIdempotent
     /\ \A e \in gw.mEntities :
          SystemsKillShootable(e) => Quiet(KilledTwice(e)) = Quiet(KilledOnce(e))
    ]_vars

\* C19 (amended): the handlers of CheckPointActivated, ExitReached, PlayerDied,
\* PlayerTookDamage, PlayerMessage, PlayerTeleported, ScreenFlash, ScreenShake,
\* TutorialMessage and BossActivated, and the handler of ShootableKilled for an
\* entity that is neither a reactor nor a bonus globe, leave the game world
\* after two deliveries as after one.  ShootableKilled for a bonus globe counts
\* the globe on every delivery; for a reactor it creates two more debris
\* projectiles on every delivery, while the flash, the backdrop and the
\* counter are after two deliveries as after one.
C19_Idempotent ==
  [][/\ SettingHandlersIdempotent
     /\ \A e \in gw.mEntities :
          SystemsKillShootable(e) =>
            LET once == KilledOnce(e)
                twice == KilledTwice(e)
            IN CASE e.type = "ShootableBonusGlobe" ->
                      /\ twice.mBonusInfo.mNumShotBonusGlobes =
                           once.mBonusInfo.mNumShotBonusGlobes + 1
                      /\ Quiet([twice EXCEPT !.mBonusInfo = once.mBonusInfo])
                           = Quiet(once)
                 [] e.type = "Reactor" ->
                      /\ once.mEntities \subseteq twice.mEntities
                      /\ Cardinality(twice.mEntities \ once.mEntities) = 2
                      /\ \A d \in twice.mEntities \ once.mEntities :
                           d.type = "ReactorDebris"
                      /\ Quiet([twice EXCEPT !.mEntities = once.mEntities])
                           = Quiet(once)
                 [] OTHER -> Quiet(twice) = Quiet(once)]_vars

\* In one frame the boss was activated, the bonus globe and the reactor were
\* shot, and the screen was shaken.
C19_Witness ==
  /\ pc = "systems"
  /\ gw.mActiveBossEntity # nullopt
  /\ gw.mBonusInfo.mNumShotBonusGlobes = 1
  /\ Started(gw)
  /\ gw.mScreenShakeOffsetX = 2
  /\ HasCall(gw, "setMessage", "FoundRespawnBeacon")

(***************************************************************************)
(* Claims about the backdrop (SpecBackdrop).                               *)
(***************************************************************************)

\* C20: the backdrop-switched flag is true exactly when switchBackdrops has
\* been called an odd number of times (the systems show the swapped
\* backdrops); a level restart leaves the backdrop unswitched; a checkpoint
\* restart leaves it unswitched if the level's condition is OnTeleportation
\* and as it was otherwise.
C20_BackdropParity ==
  [][/\ gw'.mBackdropSwitched = gw'.mpSystems.backdropsSwapped
     /\ (DeathStep /\ gw.mPlayerDied) =>
          IF gw.mActivatedCheckpoint = nullopt
            THEN ~gw'.mBackdropSwitched
          ELSE IF history.level.mBackdropSwitchCondition = "OnTeleportation"
            THEN ~gw'.mBackdropSwitched
          ELSE /\ gw'.mBackdropSwitched = gw.mBackdropSwitched
               /\ NumCalls(gw', "switchBackdrops", "") = 0]_vars

\* A checkpoint restart in a level that switches on teleportation has just
\* switched the backdrop back.
C20_Witness ==
  /\ pc = "exit"
  /\ history.level.mBackdropSwitchCondition = "OnTeleportation"
  /\ NumCalls(gw, "restartFromCheckpoint", "") = 1
  /\ NumCalls(gw, "switchBackdrops", "") = 1
  /\ ~gw.mBackdropSwitched
  /\ ~gw.mpSystems.backdropsSwapped

(***************************************************************************)
(* Claims about the finished level (Spec).                                 *)
(***************************************************************************)

\* C21: once levelFinished is true no step makes it false again, whether an
\* event, updateGameLogic, a teleport, a level restart or a checkpoint
\* restart, and handleLevelExit, run in a finished level, raises no
\* ExitReached event.
C21_LevelFinishedMonotonic ==
  [][gw.mLevelFinished =>
       /\ gw'.mLevelFinished
       /\ ExitStep => Emitted(gw') = 0]_vars

\* In a finished level a pending death was processed by a restart and
\* handleLevelExit has run after it: the level is still finished and no
\* ExitReached was raised.
C21_Witness ==
  /\ pc = "teleporter"
  /\ gw.mLevelFinished
  /\ Restarts(gw) = 1
  /\ Emitted(gw) = 0

====
